---- MODULE Spec2Model ----
(***************************************************************************)
(* Model of cmd/compile/internal/types/alg.go: the classification of a     *)
(* type by the algorithm used to compare and hash it (AlgType), the        *)
(* predicates derived from it (TypeHasNoAlg, IsComparable), the diagnostic *)
(* accessor IncomparableField and the padding check IsPaddedField.         *)
(*                                                                         *)
(* A Type is a record                                                      *)
(*   [kind, noalg, empty, width, numElem, elem, fields]                    *)
(* where elem is <<e>> for an array of e and <<>> otherwise, and fields is *)
(* the sequence of a struct's fields, each a record [type, blank, offset]. *)
(* The state is the type handed to the classifier (t), the query last      *)
(* made on it (op, and idx for the padding check) and what the query       *)
(* produced: a tag (alg), a boolean (flag), a field index (fld, 0 for nil) *)
(* or the fatal abort (aborted).                                           *)
(***************************************************************************)
EXTENDS Integers, Sequences, FiniteSets

VARIABLES t, op, idx, alg, flag, fld, aborted

vars == <<t, op, idx, alg, flag, fld, aborted>>

(***************************************************************************)
(* Bounds of the type graphs handed to the classifier.                     *)
(***************************************************************************)
MaxFields == 2
MaxElem == 2

\* Displacement of one field boundary from the contiguous layout:
\* -1 the field overruns the next offset, 0 contiguous, 1 one byte of padding.
Gaps == {-1, 0, 1}

(***************************************************************************)
(* AlgKind, alg.go:15-37.                                                  *)
(***************************************************************************)
ANOEQ == "ANOEQ"
AMEM0 == "AMEM0"
AMEM8 == "AMEM8"
AMEM16 == "AMEM16"
AMEM32 == "AMEM32"
AMEM64 == "AMEM64"
AMEM128 == "AMEM128"
ASTRING == "ASTRING"
AINTER == "AINTER"
ANILINTER == "ANILINTER"
AFLOAT32 == "AFLOAT32"
AFLOAT64 == "AFLOAT64"
ACPLX64 == "ACPLX64"
ACPLX128 == "ACPLX128"
ANOALG == "ANOALG"
AMEM == "AMEM"
ASPECIAL == "ASPECIAL"

AlgKind ==
  {ANOEQ, AMEM0, AMEM8, AMEM16, AMEM32, AMEM64, AMEM128, ASTRING, AINTER,
   ANILINTER, AFLOAT32, AFLOAT64, ACPLX64, ACPLX128, ANOALG, AMEM, ASPECIAL}

\* base.Fatalf does not return: the outcome that is no AlgKind.
FATAL == "FATAL"

(***************************************************************************)
(* Kinds.  MemKinds .. the kinds AlgType's switch lists; TNIL stands for   *)
(* the kinds it does not list.                                             *)
(***************************************************************************)
LaterKinds == {"TANY", "TFORW"}

MemKinds ==
  {"TINT8", "TUINT8", "TINT16", "TUINT16", "TINT32", "TUINT32", "TINT64",
   "TUINT64", "TINT", "TUINT", "TUINTPTR", "TBOOL", "TPTR", "TCHAN",
   "TUNSAFEPTR"}

NoEqKinds == {"TFUNC", "TMAP", "TSLICE"}

ScalarKinds ==
  LaterKinds \cup MemKinds \cup NoEqKinds \cup
  {"TFLOAT32", "TFLOAT64", "TCOMPLEX64", "TCOMPLEX128", "TSTRING", "TINTER"}

ListedKinds == ScalarKinds \cup {"TARRAY", "TSTRUCT"}

UnlistedKinds == {"TNIL"}

\* Widths the layout engine gives scalar types (64-bit target), in bytes.
KindWidth(k) ==
  CASE k \in {"TINT8", "TUINT8", "TBOOL"} -> 1
    [] k \in {"TINT16", "TUINT16"} -> 2
    [] k \in {"TINT32", "TUINT32", "TFLOAT32"} -> 4
    [] k \in {"TCOMPLEX128", "TSTRING", "TINTER"} -> 16
    [] k = "TSLICE" -> 24
    [] k \in LaterKinds \cup UnlistedKinds -> 0
    [] OTHER -> 8

(***************************************************************************)
(* Construction of types (the type table's side).                          *)
(***************************************************************************)
Scalar(k, na, em) ==
  [kind |-> k, noalg |-> na, empty |-> em, width |-> KindWidth(k),
   numElem |-> 0, elem |-> <<>>, fields |-> <<>>]

ArrayOf(e, n, na) ==
  [kind |-> "TARRAY", noalg |-> na, empty |-> FALSE, width |-> n * e.width,
   numElem |-> n, elem |-> <<e>>, fields |-> <<>>]

StructOf(fs, w, na) ==
  [kind |-> "TSTRUCT", noalg |-> na, empty |-> FALSE, width |-> w,
   numElem |-> 0, elem |-> <<>>, fields |-> fs]

\* Offset of member i (1..Len(ms)+1; Len(ms)+1 gives the struct's width) when
\* the members ms are laid out one after the other, the boundary before
\* member pos+1 displaced by gap.
RECURSIVE OffsetAt(_, _, _, _)
OffsetAt(ms, i, pos, gap) ==
  LET d == IF pos = i - 1 THEN gap ELSE 0
  IN  IF i = 1 THEN d
      ELSE OffsetAt(ms, i - 1, pos, gap) + ms[i - 1].type.width + d

Layout(ms, pos, gap, na) ==
  StructOf([i \in 1..Len(ms) |->
              [type |-> ms[i].type, blank |-> ms[i].blank,
               offset |-> OffsetAt(ms, i, pos, gap)]],
           OffsetAt(ms, Len(ms) + 1, pos, gap), na)

(***************************************************************************)
(* Accessors of Type and Field used by alg.go.                             *)
(***************************************************************************)
Noalg(ty) == ty.noalg
Kind(ty) == ty.kind
IsEmptyInterface(ty) == ty.empty
Elem(ty) == ty.elem[1]
NumElem(ty) == ty.numElem
Fields(ty) == ty.fields
NumFields(ty) == Len(ty.fields)
IsStruct(ty) == ty.kind = "TSTRUCT"
IsBlank(f) == f.blank
End(f) == f.offset + f.type.width

(***************************************************************************)
(* IsPaddedField, alg.go:153-164.                                          *)
(***************************************************************************)
\* The guard of lines 156-158: the check aborts on a type that is no struct.
PaddedFieldFatal(ty) == ~IsStruct(ty)

\* Lines 159-162: the offset of field i+1, or the struct's width.
PaddedFieldEnd(ty, i) ==
  IF i + 1 <= NumFields(ty) THEN Fields(ty)[i + 1].offset ELSE ty.width

\* Line 163, with "<" in place of "!=".
IsPaddedFieldLess(ty, i) == End(Fields(ty)[i]) < PaddedFieldEnd(ty, i)

\* Line 163.  Fields are numbered from 1 here, from 0 in the code.
IsPaddedField(ty, i) == End(Fields(ty)[i]) # PaddedFieldEnd(ty, i)

(***************************************************************************)
(* AlgType, alg.go:40-129.                                                 *)
(***************************************************************************)
\* The switch without its TSLICE case.
KindAlgNoSlice(ty) ==
  CASE Kind(ty) \in LaterKinds -> ANOEQ
    [] Kind(ty) \in MemKinds -> AMEM
    [] Kind(ty) \in {"TFUNC", "TMAP"} -> ANOEQ
    [] Kind(ty) = "TFLOAT32" -> AFLOAT32
    [] Kind(ty) = "TFLOAT64" -> AFLOAT64
    [] Kind(ty) = "TCOMPLEX64" -> ACPLX64
    [] Kind(ty) = "TCOMPLEX128" -> ACPLX128
    [] Kind(ty) = "TSTRING" -> ASTRING
    [] Kind(ty) = "TINTER" -> IF IsEmptyInterface(ty) THEN ANILINTER ELSE AINTER
    [] OTHER -> FATAL

\* The cases of the switch that do not recurse, lines 46-82, and the fall
\* through to base.Fatalf of line 127.
KindAlg(ty) ==
  CASE Kind(ty) \in {"TANY", "TFORW"} -> ANOEQ
    [] Kind(ty) \in MemKinds -> AMEM
    [] Kind(ty) \in {"TFUNC", "TMAP"} -> ANOEQ
    [] Kind(ty) = "TFLOAT32" -> AFLOAT32
    [] Kind(ty) = "TFLOAT64" -> AFLOAT64
    [] Kind(ty) = "TCOMPLEX64" -> ACPLX64
    [] Kind(ty) = "TCOMPLEX128" -> ACPLX128
    [] Kind(ty) = "TSTRING" -> ASTRING
    [] Kind(ty) = "TINTER" -> IF IsEmptyInterface(ty) THEN ANILINTER ELSE AINTER
    [] Kind(ty) = "TSLICE" -> ANOEQ
    [] OTHER -> FATAL

\* The array case with the element count examined before the element's tag.
ArrayAlgCountFirst(a, n) ==
  IF n = 0 THEN AMEM
  ELSE IF a = AMEM \/ a = ANOEQ \/ a = ANOALG THEN a
  ELSE IF n = 1 THEN a
  ELSE ASPECIAL

\* The array case without "case 1".
ArrayAlgNoSingle(a, n) ==
  IF a = AMEM \/ a = ANOEQ \/ a = ANOALG THEN a
  ELSE IF n = 0 THEN AMEM
  ELSE ASPECIAL

\* The array case, lines 86-99, a being AlgType(t.Elem()) and n t.NumElem().
ArrayAlg(a, n) ==
  IF a = AMEM \/ a = ANOEQ \/ a = ANOALG THEN a
  ELSE IF n = 0 THEN AMEM
  ELSE IF n = 1 THEN a
  ELSE ASPECIAL

\* The struct case with no one-field shortcut.
NoOneFieldStruct(ty) == FALSE

\* Line 105: one-field struct whose field is not blank.
OneFieldStruct(ty) == NumFields(ty) = 1 /\ ~IsBlank(Fields(ty)[1])

\* Line 113 testing ANOEQ alone.
IncomparableAlgNoEqOnly(a) == a = ANOEQ

\* Line 113: the tag of a field that ends the scan.
IncomparableAlg(a) == a = ANOEQ \/ a = ANOALG

RECURSIVE AlgType(_)
RECURSIVE StructScan(_, _, _)

\* The loop of lines 109-124 from field i on, ret being the accumulator.
StructScan(ty, i, ret) ==
  IF i > NumFields(ty) THEN ret
  ELSE LET f == Fields(ty)[i]
           a == AlgType(f.type)
       IN  IF a = FATAL THEN FATAL
           ELSE IF IncomparableAlg(a) THEN a
           ELSE IF a # AMEM \/ IsBlank(f)
             THEN StructScan(ty, i + 1, ASPECIAL)
           ELSE IF PaddedFieldFatal(ty) THEN FATAL
           ELSE IF IsPaddedField(ty, i)
             THEN StructScan(ty, i + 1, ASPECIAL)
           ELSE StructScan(ty, i + 1, ret)

AlgType(ty) ==
  IF Noalg(ty) THEN ANOALG
  ELSE IF Kind(ty) = "TARRAY"
    THEN LET a == AlgType(Elem(ty))
         IN  IF a = FATAL THEN FATAL ELSE ArrayAlg(a, NumElem(ty))
  ELSE IF Kind(ty) = "TSTRUCT"
    THEN IF OneFieldStruct(ty) THEN AlgType(Fields(ty)[1].type)
         ELSE StructScan(ty, 1, AMEM)
  ELSE KindAlg(ty)

(***************************************************************************)
(* TypeHasNoAlg, IsComparable, IncomparableField, alg.go:131-151.          *)
(***************************************************************************)
TypeHasNoAlg(ty) == AlgType(ty) = ANOALG

\* IsComparable rejecting ANOEQ alone.
IsComparableNoEqOnly(ty) ==
  LET a == AlgType(ty) IN a # ANOEQ

IsComparable(ty) ==
  LET a == AlgType(ty) IN a # ANOEQ /\ a # ANOALG

\* The loop of lines 145-149 from field i on: the index of the field
\* returned, 0 for nil, -1 when classifying a field's type aborts.
RECURSIVE IncomparableFieldFrom(_, _)
IncomparableFieldFrom(ty, i) ==
  IF i > NumFields(ty) THEN 0
  ELSE IF AlgType(Fields(ty)[i].type) = FATAL THEN -1
  ELSE IF ~IsComparable(Fields(ty)[i].type) THEN i
  ELSE IncomparableFieldFrom(ty, i + 1)

\* The loop started at the second field.
IncomparableFieldSkipFirst(ty) == IncomparableFieldFrom(ty, 2)

\* Lines 144-151.
IncomparableField(ty) == IncomparableFieldFrom(ty, 1)

(***************************************************************************)
(* The types handed to the classifier.                                     *)
(***************************************************************************)
Int8 == Scalar("TINT8", FALSE, FALSE)
Float32 == Scalar("TFLOAT32", FALSE, FALSE)
Map == Scalar("TMAP", FALSE, FALSE)
NoalgInt8 == Scalar("TINT8", TRUE, FALSE)
Nil == Scalar("TNIL", FALSE, FALSE)

Member(ty, b) == [type |-> ty, blank |-> b]

\* struct{ m map; x noalg }: a NoEq field before a field marked Noalg.
MapThenNoalg == Layout(<<Member(Map, FALSE), Member(NoalgInt8, FALSE)>>, 0, 0, FALSE)

\* Every scalar kind, with and without the Noalg flag.
Scalars ==
  {Scalar(k, na, FALSE) : k \in ScalarKinds \cup UnlistedKinds, na \in BOOLEAN}
    \cup {Scalar("TINTER", na, TRUE) : na \in BOOLEAN}

\* Composite types used as components of other types.
Inner ==
  {ArrayOf(Float32, MaxElem, FALSE),
   MapThenNoalg,
   ArrayOf(MapThenNoalg, 1, FALSE),
   Layout(<<Member(Int8, FALSE)>>, 0, 0, TRUE)}

\* The types of struct fields: one of each classification, and the composites.
FieldTypes == {Int8, Float32, Map, NoalgInt8, Nil} \cup Inner

Members == {Member(ty, b) : ty \in FieldTypes, b \in BOOLEAN}

MemberSeqs == UNION {[1..n -> Members] : n \in 0..MaxFields}

\* Structs of up to MaxFields fields, laid out contiguously but for one
\* boundary displaced by a gap; no offset or width is negative.
Structs ==
  {s \in {Layout(ms, pos, gap, FALSE) :
            ms \in MemberSeqs, pos \in 0..MaxFields, gap \in Gaps} :
     /\ s.width >= 0
     /\ \A i \in 1..NumFields(s) : Fields(s)[i].offset >= 0}

Arrays ==
  {ArrayOf(e, n, na) : e \in Scalars \cup Inner, n \in 0..MaxElem, na \in BOOLEAN}

Types == Scalars \cup Arrays \cup Structs \cup Inner

(***************************************************************************)
(* The state machine: a type is handed over, and queries are made on it.   *)
(***************************************************************************)
NoTag == "none"

Init ==
  /\ t \in Types
  /\ op = "none"
  /\ idx = 0
  /\ alg = NoTag
  /\ flag = FALSE
  /\ fld = 0
  /\ aborted = FALSE

CallAlgType ==
  /\ op' = "AlgType"
  /\ aborted' = (AlgType(t) = FATAL)
  /\ alg' = IF AlgType(t) = FATAL THEN NoTag ELSE AlgType(t)
  /\ flag' = FALSE
  /\ fld' = 0
  /\ idx' = 0
  /\ UNCHANGED t

CallTypeHasNoAlg ==
  /\ op' = "TypeHasNoAlg"
  /\ aborted' = (AlgType(t) = FATAL)
  /\ flag' = (AlgType(t) # FATAL /\ TypeHasNoAlg(t))
  /\ alg' = NoTag
  /\ fld' = 0
  /\ idx' = 0
  /\ UNCHANGED t

CallIsComparable ==
  /\ op' = "IsComparable"
  /\ aborted' = (AlgType(t) = FATAL)
  /\ flag' = (AlgType(t) # FATAL /\ IsComparable(t))
  /\ alg' = NoTag
  /\ fld' = 0
  /\ idx' = 0
  /\ UNCHANGED t

\* t.Fields() is defined for struct types.
CallIncomparableField ==
  /\ IsStruct(t)
  /\ op' = "IncomparableField"
  /\ aborted' = (IncomparableField(t) = -1)
  /\ fld' = IF IncomparableField(t) = -1 THEN 0 ELSE IncomparableField(t)
  /\ alg' = NoTag
  /\ flag' = FALSE
  /\ idx' = 0
  /\ UNCHANGED t

\* i is a valid field index when t is a struct.
CallIsPaddedField ==
  \E i \in 1..MaxFields :
    /\ IsStruct(t) => i <= NumFields(t)
    /\ ~IsStruct(t) => i = 1
    /\ op' = "IsPaddedField"
    /\ idx' = i
    /\ aborted' = PaddedFieldFatal(t)
    /\ flag' = (~PaddedFieldFatal(t) /\ IsPaddedField(t, i))
    /\ alg' = NoTag
    /\ fld' = 0
    /\ UNCHANGED t

Next ==
  \/ CallAlgType
  \/ CallTypeHasNoAlg
  \/ CallIsComparable
  \/ CallIncomparableField
  \/ CallIsPaddedField

Spec == Init /\ [][Next]_vars

(***************************************************************************)
(* Vocabulary of the properties.                                           *)
(***************************************************************************)
\* The types ty contains, through array elements and struct fields.
RECURSIVE Components(_)
Components(ty) ==
  IF Kind(ty) = "TARRAY" THEN {Elem(ty)} \cup Components(Elem(ty))
  ELSE IF Kind(ty) = "TSTRUCT"
    THEN UNION {{Fields(ty)[i].type} \cup Components(Fields(ty)[i].type) :
                  i \in 1..NumFields(ty)}
  ELSE {}

\* Every Kind of the type graph is one the switch lists.
WellFormed(ty) == \A c \in {ty} \cup Components(ty) : Kind(c) \in ListedKinds

\* The tag of field i's type.
FieldAlg(ty, i) == AlgType(Fields(ty)[i].type)

\* The fields whose type classifies as NoEq or NoAlg.
IncomparableFields(ty) ==
  {i \in 1..NumFields(ty) : FieldAlg(ty, i) \in {ANOEQ, ANOALG}}

\* The first of them in declaration order, 0 when there is none.
FirstIncomparable(ty) ==
  IF IncomparableFields(ty) = {} THEN 0
  ELSE CHOOSE i \in IncomparableFields(ty) :
         \A j \in IncomparableFields(ty) : i <= j

\* Where the extent of field i may reach: the next field's offset, or the
\* struct's width after the last field.
FieldLimit(ty, i) ==
  IF i < NumFields(ty) THEN Fields(ty)[i + 1].offset ELSE ty.width

\* The types the classification of ty evaluates, in the order of the code:
\* a type marked Noalg is not looked into, and a struct's fields are
\* classified up to the first one that is NoEq, NoAlg or aborts.
RECURSIVE Visited(_)
RECURSIVE VisitedFrom(_, _)
VisitedFrom(ty, i) ==
  IF i > NumFields(ty) THEN {}
  ELSE Visited(Fields(ty)[i].type) \cup
       (IF FieldAlg(ty, i) \in {ANOEQ, ANOALG, FATAL} THEN {}
        ELSE VisitedFrom(ty, i + 1))

Visited(ty) ==
  {ty} \cup
  (IF Noalg(ty) THEN {}
   ELSE IF Kind(ty) = "TARRAY" THEN Visited(Elem(ty))
   ELSE IF Kind(ty) = "TSTRUCT" THEN VisitedFrom(ty, 1)
   ELSE {})

SemanticTags ==
  {ASTRING, AINTER, ANILINTER, AFLOAT32, AFLOAT64, ACPLX64, ACPLX128}

(***************************************************************************)
(* Properties.                                                             *)
(***************************************************************************)

\* C1: an array or struct with a component (at any depth) marked Noalg
\* classifies as NoAlg, and TypeHasNoAlg reports true for it, whatever its
\* other components are.
C1_NoalgComponentPoisons ==
  (/\ Kind(t) \in {"TARRAY", "TSTRUCT"}
   /\ WellFormed(t)
   /\ \E c \in Components(t) : Noalg(c))
  => /\ op = "AlgType" => alg = ANOALG
     /\ op = "TypeHasNoAlg" => flag

\* C2 as stated: an array of 0 elements that is not marked Noalg classifies
\* as Mem whatever its element type classifies as.
C2_ZeroLengthArrayAlwaysMem ==
  (/\ op = "AlgType" /\ ~aborted
   /\ Kind(t) = "TARRAY" /\ ~Noalg(t) /\ NumElem(t) = 0)
  => alg = AMEM

\* C2 amended: an array of 0 elements that is not marked Noalg classifies as
\* its element type does when that is NoEq or NoAlg, and as Mem otherwise.
C2_ZeroLengthArray ==
  (/\ op = "AlgType" /\ ~aborted
   /\ Kind(t) = "TARRAY" /\ ~Noalg(t) /\ NumElem(t) = 0)
  => alg = (IF AlgType(Elem(t)) \in {ANOEQ, ANOALG}
              THEN AlgType(Elem(t)) ELSE AMEM)

C2_Witness ==
  /\ op = "AlgType" /\ Kind(t) = "TARRAY" /\ ~Noalg(t) /\ NumElem(t) = 0
  /\ AlgType(Elem(t)) = ASPECIAL
  /\ alg = AMEM

C4_MemStructIsPlainMemory ==
  (op = "AlgType" /\ IsStruct(t) /\ alg = AMEM)
  => \A i \in 1..NumFields(t) :
       /\ FieldAlg(t, i) = AMEM
       /\ ~IsBlank(Fields(t)[i])
       /\ ~(End(Fields(t)[i]) < FieldLimit(t, i))

C6_AbortOnlyOnUnlistedKind ==
  op = "AlgType"
  => /\ aborted => \E v \in Visited(t) : Kind(v) \notin ListedKinds
     /\ (\A v \in Visited(t) : Kind(v) \in ListedKinds) => ~aborted
     /\ ~aborted <=> alg \in AlgKind

C6_Witness ==
  /\ op = "AlgType" /\ aborted
  /\ IsStruct(t) /\ NumFields(t) = 2
  /\ FieldAlg(t, 1) = AMEM
  /\ Kind(Fields(t)[2].type) \notin ListedKinds

C8_FirstIncomparableField ==
  (op = "IncomparableField" /\ IsStruct(t))
  => /\ WellFormed(t) => ~aborted
     /\ ~aborted => fld = FirstIncomparable(t)

C8_Witness ==
  /\ op = "IncomparableField" /\ NumFields(t) = 2
  /\ IsBlank(Fields(t)[1]) /\ FieldAlg(t, 1) = ASPECIAL
  /\ IsPaddedField(t, 1)
  /\ FieldAlg(t, 2) = ANOEQ
  /\ fld = 2

\* C9: an array of n >= 1 elements that is not marked Noalg, its element type
\* classifying as a: classifies as a when n = 1 or a is Mem, NoEq or NoAlg,
\* and as Special otherwise, a then being a semantics-aware tag or Special.
C9_ArrayOfElements ==
  (/\ op = "AlgType" /\ ~aborted
   /\ Kind(t) = "TARRAY" /\ ~Noalg(t) /\ NumElem(t) >= 1)
  => LET a == AlgType(Elem(t))
     IN  /\ alg = (IF NumElem(t) = 1 \/ a \in {AMEM, ANOEQ, ANOALG}
                     THEN a ELSE ASPECIAL)
         /\ a \in {AMEM, ANOEQ, ANOALG, ASPECIAL} \cup SemanticTags

C9_Witness ==
  /\ op = "AlgType" /\ Kind(t) = "TARRAY" /\ ~Noalg(t) /\ NumElem(t) >= 2
  /\ AlgType(Elem(t)) = ASTRING
  /\ alg = ASPECIAL

\* C10: for a struct not marked Noalg, IsComparable is true exactly when
\* IncomparableField returns nil, and either both abort or neither does.
C10_ComparableIffNoIncomparableField ==
  (op = "IsComparable" /\ IsStruct(t) /\ ~Noalg(t))
  => /\ aborted <=> IncomparableField(t) = -1
     /\ ~aborted => (flag <=> IncomparableField(t) = 0)

C10_Witness ==
  /\ op = "IsComparable" /\ IsStruct(t) /\ ~Noalg(t) /\ NumFields(t) = 2
  /\ ~flag
  /\ IncomparableField(t) = 2

====
